---- MODULE Spec2Model ----
(***************************************************************************)
(* A model of the ERDOS leader/worker runtime: the Worker supervisor       *)
(* (node/worker_node.rs), the per-peer DataSender / DataReceiver tasks     *)
(* (communication/data_plane/data_sender.rs, communication/receivers.rs)   *)
(* and the StreamManager (communication/data_plane/stream_manager.rs).     *)
(*                                                                         *)
(* The specifications of the module, each over the same variables:         *)
(*   Spec, SpecFair, SpecStart, SpecNotify, SpecLeaderError               *)
(*                   the Worker supervisor loop and the data plane        *)
(*   SpecLeader, SpecNode   the Worker under the Leader of the spec       *)
(*   SpecHandle      the WorkerHandle of the driver (node/handles.rs)      *)
(*   SpecData        one DataSender -> TCP -> DataReceiver connection      *)
(*   SpecSM          the StreamManager, its pushers and channels           *)
(*   SpecStream      one AbstractStream (dataflow/graph/mod.rs)            *)
(*   SpecLeaderNode  the accept loop of the LeaderNode (leader_node.rs)    *)
(*   SpecIngest      one IngestStream (dataflow/stream/ingest_stream.rs)   *)
(***************************************************************************)
EXTENDS Integers, Sequences, FiniteSets, TLC

VARIABLES
    \* ---- WorkerNode (worker_node.rs) ----
    job_graphs,               \* ids of the JobGraphs registered on the Worker
    pending_stream_setups,    \* Job -> [graph, streams]
    job_graph_to_job_state,   \* JobGraphId -> (Job -> JobState)
    channel_to_data_plane,    \* queue of SetupStreams(job, streams)
    channel_from_data_plane,  \* queue of DataPlaneNotification
    leader_tx,                \* WorkerNotifications written to the Leader, in order
    job_executors,            \* (g, job) -> number of executors spawned
    worker_pc,                \* "init" | "spawned" | "running" | "joining" | "done" | "Err" | "panicked"
    data_plane_pc,            \* the data plane task: "new" | "running" | "exited"
    data_plane_address,       \* the address the DataPlane is bound to
    \* history of the supervisor run (not program state)
    h_scheduled,              \* (g, j) for which ScheduleJob seeded the pending set
    h_reported,               \* Job -> streams reported by StreamReady since the last seeding
    h_materialized,           \* (job, stream) whose endpoints the data plane set up
    h_execute,                \* graphs for which ExecuteGraph was received
    \* ---- DataSender (data_sender.rs) and DataReceiver (receivers.rs) ----
    data_message_rx,          \* the DataSender's in-process queue of frames
    queue_open,               \* FALSE once every sender handle of the queue is dropped
    tcp_stream,               \* frames written on the TCP stream and not yet read
    tcp_state,                \* "open" | "eof" | "reset"
    sender_pc,                \* "init" | "running" | "Disconnected" | "Err"
    rx,                       \* the DataReceiver's channel of pusher updates
    stream_id_to_pusher,      \* the DataReceiver's own table StreamId -> pusher
    receiver_pc,              \* "init" | "running" | "dispatch" | "Ok" | "Err" | "panicked"
    recv_msg,                 \* the frame the DataReceiver read and has not dispatched yet
    n_updates,                \* pushers sent to the DataReceiver so far
    \* history of the connection (not program state)
    h_enqueued,               \* frames in the order they were enqueued at the sender
    h_written,                \* frames in the order they were written on the TCP stream
    h_dispatched,             \* [frame, pusher] in the order of dispatch
    \* ---- StreamManager (stream_manager.rs) ----
    stream_entries,           \* StreamId -> [recv_endpoints, send_endpoints], each Job -> endpoint
    stream_pushers,           \* StreamId -> the shared Pusher: Job -> channel it sends on
    installed_pushers,        \* streams whose pusher a DataReceiver was handed
    pusher_updates,           \* pusher-update notifications sent, in order
    channels,                 \* every in-process channel made, in the order of creation
    sm_pc,                    \* "running" | "panicked"
    n_dispatched,             \* StreamId -> frames the pusher of the stream was handed
    \* history of the StreamManager (not program state)
    h_taken,                  \* [stream_id, endpoint] of every successful take, in order
    h_pusher_calls,           \* StreamId -> [created, installed]: Pushers made, install_pusher calls
    h_handed,                 \* <<stream_id, job>> whose stored SendEndpoint was returned by get_send_endpoints
    h_rehanded,               \* a get_send_endpoints returned a SendEndpoint returned before
    \* ---- WorkerHandle (handles.rs) ----
    worker_handle,            \* the channel of DriverNotifications to the Worker
    handle_pc,                \* Idle, or the submit between its two sends: [graph, sent]
    \* history of the WorkerHandle (not program state)
    h_driver_sent,            \* every DriverNotification sent on the channel, in order
    h_calls,                  \* [op, graph, result, sent] of every finished call, in order
    \* ---- AbstractStream (dataflow/graph/mod.rs) ----
    abstract_stream,          \* [source, destinations] of the struct, with
                              \* pc: "ok" | "panicked" (a call on it panicked) and
                              \* h_read: what the last get_ call returned
    \* ---- LeaderNode (leader_node.rs) ----
    leader_node,              \* [node_id_to_connection] of the struct, with
                              \* rng: the state of the generator of ids,
                              \* pc: "accepting" | "Err" | "panicked",
                              \* n_accepted: connections accepted so far and
                              \* h_ready: [connection, message] of every Ready written
    \* ---- IngestStream (dataflow/stream/ingest_stream.rs) ----
    ingest_stream,            \* [write_stream_option]: None or Some([closed, sent]), with
                              \* setup_hook_pc: "pending" | "done" | "panicked" and
                              \* h_sends: [msg, at, result] of every finished send
    \* ---- the Worker's read half of the Leader connection (worker_node.rs) ----
    h_leader_rx_error         \* a read from the Leader connection yielded Err

worker_vars == <<job_graphs, pending_stream_setups, job_graph_to_job_state,
                 channel_to_data_plane, channel_from_data_plane, leader_tx,
                 job_executors, worker_pc, data_plane_pc, data_plane_address,
                 h_scheduled,
                 h_reported, h_materialized, h_execute>>

data_vars == <<data_message_rx, queue_open, tcp_stream, tcp_state, sender_pc,
               rx, stream_id_to_pusher, receiver_pc, recv_msg, n_updates,
               h_enqueued, h_written, h_dispatched>>

sm_vars == <<stream_entries, stream_pushers, installed_pushers, pusher_updates,
             channels, sm_pc, n_dispatched, h_taken, h_pusher_calls, h_handed,
             h_rehanded>>

handle_vars == <<worker_handle, handle_pc, h_driver_sent, h_calls>>

abstract_stream_vars == <<abstract_stream>>

leader_vars == <<leader_node>>

ingest_vars == <<ingest_stream>>

leader_rx_vars == <<h_leader_rx_error>>

vars == <<worker_vars, data_vars, sm_vars, handle_vars, abstract_stream_vars,
          leader_vars, ingest_vars, leader_rx_vars>>

\* The variables of the other components, which a component leaves alone.
not_worker_vars == <<data_vars, sm_vars, handle_vars, abstract_stream_vars,
                     leader_vars, ingest_vars, leader_rx_vars>>

not_data_vars == <<worker_vars, sm_vars, handle_vars, abstract_stream_vars,
                   leader_vars, ingest_vars, leader_rx_vars>>

not_sm_vars == <<worker_vars, data_vars, handle_vars, abstract_stream_vars,
                 leader_vars, ingest_vars, leader_rx_vars>>

not_handle_vars == <<worker_vars, data_vars, sm_vars, abstract_stream_vars,
                     leader_vars, ingest_vars, leader_rx_vars>>

not_worker_handle_vars == <<data_vars, sm_vars, abstract_stream_vars,
                            leader_vars, ingest_vars, leader_rx_vars>>

not_abstract_stream_vars == <<worker_vars, data_vars, sm_vars, handle_vars,
                              leader_vars, ingest_vars, leader_rx_vars>>

not_leader_vars == <<worker_vars, data_vars, sm_vars, handle_vars,
                     abstract_stream_vars, ingest_vars, leader_rx_vars>>

not_ingest_vars == <<worker_vars, data_vars, sm_vars, handle_vars,
                     abstract_stream_vars, leader_vars, leader_rx_vars>>

not_leader_rx_vars == <<worker_vars, data_vars, sm_vars, handle_vars,
                        abstract_stream_vars, leader_vars, ingest_vars>>

----------------------------------------------------------------------------
\* Bounds of the model.
MaxRequests == 1     \* SetupStreams requests queued for the data plane
MaxNotifications == 1 \* notifications queued for the supervisor
MaxLeaderTx == 2     \* messages written on the Leader connection
MaxExecutors == 2    \* operator executors spawned in all
MaxFrames == 2       \* frames enqueued at the DataSender
MaxUpdates == 2      \* pusher updates sent to the DataReceiver
MaxChannels == 2     \* in-process channels the StreamManager makes
MaxDispatch == 2     \* frames handed to the pushers of the StreamManager

----------------------------------------------------------------------------
\* HashMap helpers.
Put(f, k, v) == [x \in DOMAIN f \cup {k} |-> IF x = k THEN v ELSE f[x]]

Remove(f, k) == [x \in DOMAIN f \ {k} |-> f[x]]

EmptyMap == [x \in {} |-> x]

Range(s) == {s[i] : i \in DOMAIN s}

----------------------------------------------------------------------------
\* The JobGraphs the Driver can register.  A compiled JobGraph is immutable
\* and its id determines its content.
JobGraphIds == {"g1", "g2"}

Jobs == {"j1", "j2", "j3"}

StreamIds == {"s1", "s2"}

\* AbstractOperator.read_streams / write_streams of every operator of a graph.
JobGraphOperators ==
    [g \in JobGraphIds |->
        IF g = "g1"
        THEN [j \in {"j1", "j2"} |->
                IF j = "j1"
                THEN [read_streams |-> <<>>, write_streams |-> <<"s1">>]
                ELSE [read_streams |-> <<"s1">>, write_streams |-> <<"s2">>]]
        ELSE [j \in {"j3"} |-> [read_streams |-> <<>>, write_streams |-> <<>>]]]

\* AbstractStream.source / destinations.
get_source(s) == IF s = "s1" THEN "j1" ELSE "j2"

get_destinations(s) == IF s = "s1" THEN <<"j2">> ELSE <<>>

\* JobState, in the order of its declaration.
JobStateRank(st) ==
    CASE st = "Scheduled" -> 0
      [] st = "Ready" -> 1
      [] st = "Executing" -> 2
      [] st = "Shutdown" -> 3

\* The worker_addresses maps a ScheduleJob can carry (their key sets).
WorkerAddresses == {{}, Jobs}

----------------------------------------------------------------------------
\* A mutated loop: the select runs whatever happened to the run loop before.
SelectingAlways == TRUE

\* WorkerNode::run is in its loop, at tokio::select!.
Selecting == worker_pc = "running"

----------------------------------------------------------------------------
\* The state in which WorkerNode::run enters its loop.  The Initialized
\* message, sent before the loop, is left out of leader_tx, which holds here
\* what the handlers of the loop send; SpecStart has the run from its start.
WorkerInit ==
    /\ job_graphs = {}
    /\ pending_stream_setups = EmptyMap
    /\ job_graph_to_job_state = EmptyMap
    /\ channel_to_data_plane = <<>>
    /\ channel_from_data_plane = <<>>
    /\ leader_tx = <<>>
    /\ job_executors = [p \in JobGraphIds \X Jobs |-> 0]
    /\ worker_pc = "running"
    /\ data_plane_pc = "running"
    /\ data_plane_address = "p1"
    /\ h_scheduled = {}
    /\ h_reported = [j \in Jobs |-> {}]
    /\ h_materialized = {}
    /\ h_execute = {}

----------------------------------------------------------------------------
\* WorkerNode::handle_leader_messages, arm ScheduleJob.

\* The Jobs whose address the handler looks up in worker_addresses: the source
\* of every read stream and every destination of every write stream.
AddressesNeeded(operator) ==
    {get_source(operator.read_streams[i]) : i \in DOMAIN operator.read_streams}
    \cup UNION {Range(get_destinations(operator.write_streams[i])) :
                    i \in DOMAIN operator.write_streams}

\* streams: the read streams, then the write streams, of the operator.
StreamsOf(operator) == operator.read_streams \o operator.write_streams

SetupStreams(job, streams) == [job |-> job, streams |-> streams]

StreamReady(job, stream_id) ==
    [type |-> "StreamReady", job |-> job, stream_id |-> stream_id]

JobReady(g, job) == [type |-> "JobReady", graph |-> g, job |-> job]

\* self.job_graph_to_job_state.entry(g).or_default().insert(job, state)
InsertJobState(states, g, job, st) ==
    Put(states, g, Put(IF g \in DOMAIN states THEN states[g] ELSE EmptyMap, job, st))

\* A mutated lookup: only the sources of the read streams are looked up.
addresses_found_for_sources(worker_addresses, operator) ==
    {get_source(operator.read_streams[i]) : i \in DOMAIN operator.read_streams}
        \subseteq worker_addresses

\* worker_addresses.get(..).expect(..) finds an address for the source of
\* every read stream and for every destination of every write stream.
addresses_found(worker_addresses, operator) ==
    AddressesNeeded(operator) \subseteq worker_addresses

\* A mutated lookup: a JobGraph is found for every id.
get_job_graph_always(graphs, g) == TRUE

\* A mutated lookup: a JobGraph is found for every id a graph can have.
get_job_graph_of_any_id(graphs, g) == g \in JobGraphIds

\* self.job_graphs.get(&job_graph_id) is Some(job_graph)
get_job_graph(graphs, g) == g \in graphs

ScheduleJob(g, job, worker_addresses) ==
    /\ Selecting
    /\ IF get_job_graph(job_graphs, g) /\ job \in DOMAIN JobGraphOperators[g]
       THEN LET operator == JobGraphOperators[g][job]
                streams == StreamsOf(operator)
            IN  IF ~addresses_found(worker_addresses, operator)
                THEN \* .expect("Could not find the address ...") panics
                     /\ worker_pc' = "panicked"
                     /\ UNCHANGED <<job_graphs, pending_stream_setups,
                                    job_graph_to_job_state, channel_to_data_plane,
                                    channel_from_data_plane, leader_tx,
                                    job_executors, h_scheduled, h_reported,
                                    h_materialized, h_execute>>
                ELSE /\ Len(channel_to_data_plane) < MaxRequests
                     /\ pending_stream_setups' =
                            Put(pending_stream_setups, job,
                                [graph |-> g, streams |-> Range(streams)])
                     /\ job_graph_to_job_state' =
                            InsertJobState(job_graph_to_job_state, g, job, "Scheduled")
                     /\ channel_to_data_plane' =
                            Append(channel_to_data_plane, SetupStreams(job, streams))
                     /\ h_scheduled' = h_scheduled \cup {<<g, job>>}
                     /\ h_reported' = [h_reported EXCEPT ![job] = {}]
                     /\ UNCHANGED <<job_graphs, channel_from_data_plane, leader_tx,
                                    job_executors, worker_pc, h_materialized,
                                    h_execute>>
       ELSE UNCHANGED <<job_graphs, pending_stream_setups, job_graph_to_job_state,
                        channel_to_data_plane, channel_from_data_plane, leader_tx,
                        job_executors, worker_pc, h_scheduled, h_reported,
                        h_materialized, h_execute>>
    /\ UNCHANGED <<data_plane_pc, data_plane_address, not_worker_vars>>

----------------------------------------------------------------------------
\* WorkerNode::handle_leader_messages, arm ExecuteGraph.

\* job_graph.get_operator_runner(&operator.id): the JobGraph holds a runner
\* for every operator it was built from.
get_operator_runner(g, job) == job \in DOMAIN JobGraphOperators[g]

\* A mutated handler: two executors more for every Job recorded for graph g.
SpawnExecutorsTwice(executors, g, jobs) ==
    [p \in DOMAIN executors |->
        IF p[1] = g /\ p[2] \in jobs THEN executors[p] + 2 ELSE executors[p]]

\* A mutated handler: an executor more for the Jobs of that name of every
\* graph.
SpawnExecutorsOfAnyGraph(executors, g, jobs) ==
    [p \in DOMAIN executors |->
        IF p[2] \in jobs THEN executors[p] + 1 ELSE executors[p]]

\* One executor more for every Job recorded for graph g that has a runner.
SpawnExecutors(executors, g, jobs) ==
    [p \in DOMAIN executors |->
        IF p[1] = g /\ p[2] \in jobs /\ get_operator_runner(g, p[2])
        THEN executors[p] + 1
        ELSE executors[p]]

RECURSIVE SumOver(_, _)
SumOver(f, keys) ==
    IF keys = {} THEN 0
    ELSE LET k == CHOOSE x \in keys : TRUE IN f[k] + SumOver(f, keys \ {k})

NumExecutors(executors) == SumOver(executors, DOMAIN executors)

ExecuteGraph(g) ==
    /\ Selecting
    /\ h_execute' = h_execute \cup {g}
    /\ IF g \notin DOMAIN job_graph_to_job_state
       THEN \* self.job_graph_to_job_state.get(&job_graph_id).unwrap() panics
            /\ worker_pc' = "panicked"
            /\ UNCHANGED job_executors
       ELSE LET jobs == DOMAIN job_graph_to_job_state[g]
            IN  /\ NumExecutors(job_executors) + Cardinality(jobs) <= MaxExecutors
                /\ job_executors' = SpawnExecutors(job_executors, g, jobs)
                /\ UNCHANGED worker_pc
    /\ UNCHANGED <<job_graphs, pending_stream_setups, job_graph_to_job_state,
                   channel_to_data_plane, channel_from_data_plane, leader_tx,
                   h_scheduled, h_reported, h_materialized>>
    /\ UNCHANGED <<data_plane_pc, data_plane_address, not_worker_vars>>

\* WorkerNode::run, Leader arm, LeaderNotification::Shutdown.
LeaderShutdown ==
    /\ Selecting
    /\ UNCHANGED <<data_plane_pc, data_plane_address, not_worker_vars>>
    /\ worker_pc' = "done"
    /\ UNCHANGED <<job_graphs, pending_stream_setups, job_graph_to_job_state,
                   channel_to_data_plane, channel_from_data_plane, leader_tx,
                   job_executors, h_scheduled, h_reported, h_materialized,
                   h_execute>>

----------------------------------------------------------------------------
\* WorkerNode::handle_driver_messages.

\* The arms of the match in handle_driver_messages.
RegisterGraphArm(g) ==
    /\ UNCHANGED <<data_plane_pc, data_plane_address>>
    /\ Selecting
    /\ job_graphs' = job_graphs \cup {g}
    /\ UNCHANGED <<pending_stream_setups, job_graph_to_job_state,
                   channel_to_data_plane, channel_from_data_plane, leader_tx,
                   job_executors, worker_pc, h_scheduled, h_reported,
                   h_materialized, h_execute>>

SubmitGraphArm(g) ==
    /\ UNCHANGED <<data_plane_pc, data_plane_address>>
    /\ Selecting
    /\ IF get_job_graph(job_graphs, g)
       THEN /\ Len(leader_tx) < MaxLeaderTx
            /\ leader_tx' = Append(leader_tx, [type |-> "SubmitGraph", graph |-> g])
       ELSE UNCHANGED leader_tx
    /\ UNCHANGED <<job_graphs, pending_stream_setups, job_graph_to_job_state,
                   channel_to_data_plane, channel_from_data_plane,
                   job_executors, worker_pc, h_scheduled, h_reported,
                   h_materialized, h_execute>>

\* The Driver arm of the run loop with a RegisterGraph or a SubmitGraph that
\* arrives; the channel it arrives on is left out.
RegisterGraph(g) == RegisterGraphArm(g) /\ UNCHANGED not_worker_vars

SubmitGraph(g) == SubmitGraphArm(g) /\ UNCHANGED not_worker_vars

\* WorkerNode::run, Driver arm, DriverNotification::Shutdown.
DriverShutdown ==
    /\ Selecting
    /\ Len(leader_tx) < MaxLeaderTx
    /\ UNCHANGED <<data_plane_pc, data_plane_address, not_worker_vars>>
    /\ leader_tx' = Append(leader_tx, [type |-> "Shutdown"])
    /\ worker_pc' = "joining"
    /\ UNCHANGED <<job_graphs, pending_stream_setups, job_graph_to_job_state,
                   channel_to_data_plane, channel_from_data_plane,
                   job_executors, h_scheduled, h_reported, h_materialized,
                   h_execute>>

\* WorkerNode::run, Driver arm: tokio::join!(data_plane_handle) completes once
\* the data plane task has ended, and run returns Ok(()).
JoinDataPlane ==
    /\ worker_pc = "joining"
    /\ data_plane_pc = "exited"
    /\ worker_pc' = "done"
    /\ UNCHANGED <<job_graphs, pending_stream_setups, job_graph_to_job_state,
                   channel_to_data_plane, channel_from_data_plane, leader_tx,
                   job_executors, data_plane_pc, h_scheduled, h_reported,
                   h_materialized, h_execute>>
    /\ UNCHANGED <<data_plane_address, not_worker_vars>>

----------------------------------------------------------------------------
\* WorkerNode::handle_data_plane_messages: the head of the notification channel.

\* The state of the Job becomes Ready when both maps have it.
MarkReady(states, g, job) ==
    IF g \in DOMAIN states /\ job \in DOMAIN states[g]
    THEN [states EXCEPT ![g] = [@ EXCEPT ![job] = "Ready"]]
    ELSE states

\* A mutated emptiness test: every removal counts as the last one.
AnyRemovalIsLast(pending_streams) == TRUE

\* pending_streams.is_empty()
is_empty(pending_streams) == pending_streams = {}

\* What the StreamReady arm does to the maps, the channel and the Leader
\* connection.
\* A mutated false / None arm: the Job is reported Ready all the same.
stream_not_pending_reports(tx, job) == Append(tx, JobReady("g1", job))

\* The false arm of pending_streams.remove and the None arm of
\* pending_stream_setups.get_mut: tracing::warn! and nothing else.
stream_not_pending(tx, job) == tx

StreamReadyArm ==
    /\ Selecting
    /\ channel_from_data_plane # <<>>
    /\ UNCHANGED <<data_plane_pc, data_plane_address, not_worker_vars>>
    /\ LET notification == Head(channel_from_data_plane)
           job == notification.job
           stream_id == notification.stream_id
       IN  /\ notification.type = "StreamReady"
           /\ channel_from_data_plane' = Tail(channel_from_data_plane)
           /\ IF job \in DOMAIN pending_stream_setups
                 /\ stream_id \in pending_stream_setups[job].streams
              THEN LET job_graph_id == pending_stream_setups[job].graph
                       pending_streams ==
                           pending_stream_setups[job].streams \ {stream_id}
                   IN  /\ h_reported' =
                              [h_reported EXCEPT ![job] = @ \cup {stream_id}]
                       /\ IF is_empty(pending_streams)
                          THEN /\ Len(leader_tx) < MaxLeaderTx
                               /\ leader_tx' =
                                      Append(leader_tx, JobReady(job_graph_id, job))
                               /\ job_graph_to_job_state' =
                                      MarkReady(job_graph_to_job_state,
                                                job_graph_id, job)
                               /\ pending_stream_setups' =
                                      Remove(pending_stream_setups, job)
                          ELSE /\ pending_stream_setups' =
                                      [pending_stream_setups EXCEPT
                                          ![job].streams = pending_streams]
                               /\ UNCHANGED <<leader_tx, job_graph_to_job_state>>
              ELSE /\ leader_tx' = stream_not_pending(leader_tx, job)
                   /\ UNCHANGED <<pending_stream_setups, job_graph_to_job_state,
                                  h_reported>>
    /\ UNCHANGED <<job_graphs, channel_to_data_plane, worker_pc,
                   h_scheduled, h_materialized, h_execute>>

\* A mutated handler: the supervisor starts the executor of a Job on its own
\* as soon as the Job is Ready.
HandleStreamReadyAndExecute ==
    /\ StreamReadyArm
    /\ LET job == Head(channel_from_data_plane).job
       IN  IF /\ job \in DOMAIN pending_stream_setups
              /\ job \notin DOMAIN pending_stream_setups'
              /\ NumExecutors(job_executors) < MaxExecutors
           THEN job_executors' =
                    [job_executors EXCEPT
                        ![<<pending_stream_setups[job].graph, job>>] = @ + 1]
           ELSE UNCHANGED job_executors

HandleStreamReady ==
    /\ StreamReadyArm
    /\ UNCHANGED job_executors

----------------------------------------------------------------------------
\* The data plane task: it serves the SetupStreams request at the head of its
\* channel one stream at a time, setting up the endpoints of the stream and
\* then reporting it to the supervisor with StreamReady(job, stream); the
\* request leaves the channel with its last stream.
DataPlaneSetupStreams ==
    /\ data_plane_pc = "running"
    /\ channel_to_data_plane # <<>>
    /\ UNCHANGED <<data_plane_pc, data_plane_address, not_worker_vars>>
    /\ LET request == Head(channel_to_data_plane)
       IN  IF request.streams = <<>>
           THEN /\ channel_to_data_plane' = Tail(channel_to_data_plane)
                /\ UNCHANGED <<h_materialized, channel_from_data_plane>>
           ELSE /\ Len(channel_from_data_plane) < MaxNotifications
                /\ channel_to_data_plane' =
                       IF Len(request.streams) = 1
                       THEN Tail(channel_to_data_plane)
                       ELSE <<SetupStreams(request.job, Tail(request.streams))>>
                            \o Tail(channel_to_data_plane)
                /\ h_materialized' =
                       h_materialized \cup {<<request.job, Head(request.streams)>>}
                /\ channel_from_data_plane' =
                       Append(channel_from_data_plane,
                              StreamReady(request.job, Head(request.streams)))
    /\ UNCHANGED <<job_graphs, pending_stream_setups, job_graph_to_job_state,
                   leader_tx, job_executors, worker_pc, h_scheduled, h_reported,
                   h_execute>>

\* The data plane task ends by itself.  The supervisor looks at the task
\* only in its join, so an end before the join is the task taking no step
\* from then on and ending at the join.
DataPlaneExit ==
    /\ worker_pc = "joining"
    /\ data_plane_pc = "running"
    /\ data_plane_pc' = "exited"
    /\ UNCHANGED <<job_graphs, pending_stream_setups, job_graph_to_job_state,
                   channel_to_data_plane, channel_from_data_plane, leader_tx,
                   job_executors, worker_pc, h_scheduled, h_reported,
                   h_materialized, h_execute>>
    /\ UNCHANGED <<data_plane_address, not_worker_vars>>

----------------------------------------------------------------------------
\* WorkerNode::run before its loop: the DataPlane is created and spawned, and
\* the Worker announces itself to the Leader.

WorkerId == "w1"

Resources == "r1"

\* self.data_plane_address, the address the Worker is configured with; with
\* port 0 the DataPlane binds to a port the system assigns.
ConfiguredAddress == "p0"

\* The addresses a DataPlane configured with ConfiguredAddress can bind to.
BoundAddresses == {"p1", "p2"}

WorkerState(id, address, resources) ==
    [id |-> id, address |-> address, resources |-> resources]

Initialized(state) == [type |-> "Initialized", state |-> state]

\* A mutated announcement: the configured address instead of the bound one.
InitializedWithConfigured(bound) ==
    Initialized(WorkerState(WorkerId, ConfiguredAddress, Resources))

\* WorkerNotification::Initialized(WorkerState::new(self.id,
\* data_plane_address, self.resources.clone())), data_plane_address being
\* data_plane.address().
InitializedWith(bound) ==
    Initialized(WorkerState(WorkerId, bound, Resources))

\* The state in which WorkerNode::run is entered.
WorkerStart ==
    /\ job_graphs = {}
    /\ pending_stream_setups = EmptyMap
    /\ job_graph_to_job_state = EmptyMap
    /\ channel_to_data_plane = <<>>
    /\ channel_from_data_plane = <<>>
    /\ leader_tx = <<>>
    /\ job_executors = [p \in JobGraphIds \X Jobs |-> 0]
    /\ worker_pc = "init"
    /\ data_plane_pc = "new"
    /\ data_plane_address = ConfiguredAddress
    /\ h_scheduled = {}
    /\ h_reported = [j \in Jobs |-> {}]
    /\ h_materialized = {}
    /\ h_execute = {}

\* The connection to the Leader and DataPlane::new succeed or fail (ok); on
\* success the DataPlane is bound to an address and its task is spawned.
StartDataPlane(ok, bound) ==
    /\ worker_pc = "init"
    /\ IF ok
       THEN /\ data_plane_address' = bound
            /\ data_plane_pc' = "running"
            /\ worker_pc' = "spawned"
       ELSE /\ worker_pc' = "Err"
            /\ UNCHANGED <<data_plane_address, data_plane_pc>>
    /\ UNCHANGED <<job_graphs, pending_stream_setups, job_graph_to_job_state,
                   channel_to_data_plane, channel_from_data_plane, leader_tx,
                   job_executors, h_scheduled, h_reported, h_materialized,
                   h_execute>>
    /\ UNCHANGED not_worker_vars

\* leader_tx.send(WorkerNotification::Initialized(..)).await?; ok is whether
\* the send succeeds.  The loop is entered after it.
SendInitialized(ok) ==
    /\ worker_pc = "spawned"
    /\ IF ok
       THEN /\ leader_tx' = Append(leader_tx, InitializedWith(data_plane_address))
            /\ worker_pc' = "running"
       ELSE /\ worker_pc' = "Err"
            /\ UNCHANGED leader_tx
    /\ UNCHANGED <<job_graphs, pending_stream_setups, job_graph_to_job_state,
                   channel_to_data_plane, channel_from_data_plane,
                   job_executors, data_plane_pc, data_plane_address,
                   h_scheduled, h_reported, h_materialized, h_execute>>
    /\ UNCHANGED not_worker_vars

----------------------------------------------------------------------------
WorkerNext ==
    \/ \E g \in JobGraphIds, j \in Jobs, a \in WorkerAddresses : ScheduleJob(g, j, a)
    \/ \E g \in JobGraphIds : ExecuteGraph(g)
    \/ LeaderShutdown
    \/ \E g \in JobGraphIds : RegisterGraph(g)
    \/ \E g \in JobGraphIds : SubmitGraph(g)
    \/ DriverShutdown
    \/ JoinDataPlane
    \/ HandleStreamReady
    \/ DataPlaneSetupStreams
    \/ DataPlaneExit

----------------------------------------------------------------------------
\* One Worker-to-Worker connection: the DataSender of one Worker, the TCP
\* stream, and the DataReceiver of the peer.

\* A serialized frame: metadata.stream_id, a serial number that identifies
\* it, and whether its bytes deserialize.
Frame(stream_id, n, decodable) ==
    [stream_id |-> stream_id, n |-> n, decodable |-> decodable]

NoFrame == [stream_id |-> "none", n |-> 0, decodable |-> FALSE]

DataInit ==
    /\ data_message_rx = <<>>
    /\ queue_open = TRUE
    /\ tcp_stream = <<>>
    /\ tcp_state = "open"
    /\ sender_pc = "init"
    /\ rx = <<>>
    /\ stream_id_to_pusher = EmptyMap
    /\ receiver_pc = "init"
    /\ recv_msg = NoFrame
    /\ n_updates = 0
    /\ h_enqueued = <<>>
    /\ h_written = <<>>
    /\ h_dispatched = <<>>

\* An operator sends a message on an inter-Worker SendEndpoint: the frame is
\* pushed on the queue of the DataSender.
EnqueueFrame(stream_id, decodable) ==
    /\ queue_open
    /\ sender_pc \in {"init", "running"}
    /\ Len(h_enqueued) < MaxFrames
    /\ LET frame == Frame(stream_id, Len(h_enqueued) + 1, decodable)
       IN  /\ data_message_rx' = Append(data_message_rx, frame)
           /\ h_enqueued' = Append(h_enqueued, frame)
    /\ UNCHANGED <<queue_open, tcp_stream, tcp_state, sender_pc, rx,
                   stream_id_to_pusher, receiver_pc, recv_msg, n_updates,
                   h_written, h_dispatched>>
    /\ UNCHANGED not_data_vars

\* Every handle that sends on the queue is dropped.
DropQueueSenders ==
    /\ queue_open
    /\ queue_open' = FALSE
    /\ UNCHANGED <<data_message_rx, tcp_stream, tcp_state, sender_pc, rx,
                   stream_id_to_pusher, receiver_pc, recv_msg, n_updates,
                   h_enqueued, h_written, h_dispatched>>
    /\ UNCHANGED not_data_vars

\* The TCP connection is lost: ended by the peer or reset.
ConnectionLost(how) ==
    /\ tcp_state = "open"
    /\ tcp_state' = how
    /\ UNCHANGED <<data_message_rx, queue_open, tcp_stream, sender_pc, rx,
                   stream_id_to_pusher, receiver_pc, recv_msg, n_updates,
                   h_enqueued, h_written, h_dispatched>>
    /\ UNCHANGED not_data_vars

\* DataSender::run: the SenderInitialized notification; ok is whether the
\* send on the notification channel succeeds.
SenderInitialized(ok) ==
    /\ sender_pc = "init"
    /\ sender_pc' = IF ok THEN "running" ELSE "Err"
    /\ UNCHANGED <<data_message_rx, queue_open, tcp_stream, tcp_state, rx,
                   stream_id_to_pusher, receiver_pc, recv_msg, n_updates,
                   h_enqueued, h_written, h_dispatched>>
    /\ UNCHANGED not_data_vars

\* A mutated receive: the newest message of the queue first.
recv_newest(queue) ==
    [msg |-> queue[Len(queue)], rest |-> SubSeq(queue, 1, Len(queue) - 1)]

\* self.data_message_rx.recv(): the oldest message of the queue.
recv(queue) == [msg |-> Head(queue), rest |-> Tail(queue)]

\* A mutated write: it succeeds whatever the state of the connection.
send_fails_never(state) == FALSE

\* self.tcp_stream.send(msg).await is an Err: the connection is lost.
send_fails(state) == state # "open"

\* A mutated receive: None as soon as every sender of the queue is dropped,
\* whatever the queue still holds.
recv_is_none_once_closed(queue, open) == ~open

\* self.data_message_rx.recv().await is None: the queue is closed and empty.
recv_is_none(queue, open) == queue = <<>> /\ ~open

\* DataSender::run: one turn of the loop.  On an empty queue that is still
\* open recv() waits: the task takes no step.
DataSenderRun ==
    /\ sender_pc = "running"
    /\ IF recv_is_none(data_message_rx, queue_open)
       THEN /\ sender_pc' = "Disconnected"
            /\ UNCHANGED <<data_message_rx, tcp_stream, h_written>>
       ELSE /\ data_message_rx # <<>>
            /\ LET got == recv(data_message_rx)
               IN  /\ data_message_rx' = got.rest
                   /\ IF ~send_fails(tcp_state)
                      THEN /\ tcp_stream' = Append(tcp_stream, got.msg)
                           /\ h_written' = Append(h_written, got.msg)
                           /\ UNCHANGED sender_pc
                      ELSE /\ sender_pc' = "Err"
                           /\ UNCHANGED <<tcp_stream, h_written>>
    /\ UNCHANGED <<queue_open, tcp_state, rx, stream_id_to_pusher, receiver_pc,
                   recv_msg, n_updates, h_enqueued, h_dispatched>>
    /\ UNCHANGED not_data_vars

\* A pusher for a stream is sent to the DataReceiver on its update channel;
\* every pusher sent is a new object, named by its serial number.
InstallPusher(stream_id) ==
    /\ receiver_pc \in {"init", "running", "dispatch"}
    /\ n_updates < MaxUpdates
    /\ n_updates' = n_updates + 1
    /\ rx' = Append(rx, <<stream_id, n_updates + 1>>)
    /\ UNCHANGED <<data_message_rx, queue_open, tcp_stream, tcp_state, sender_pc,
                   stream_id_to_pusher, receiver_pc, recv_msg, h_enqueued,
                   h_written, h_dispatched>>
    /\ UNCHANGED not_data_vars

\* DataReceiver::run: the DataReceiverInitialized notification; ok is
\* whether the send on the control channel succeeds.
ReceiverInitialized(ok) ==
    /\ receiver_pc = "init"
    /\ receiver_pc' = IF ok THEN "running" ELSE "Err"
    /\ UNCHANGED <<data_message_rx, queue_open, tcp_stream, tcp_state, sender_pc,
                   rx, stream_id_to_pusher, recv_msg, n_updates, h_enqueued,
                   h_written, h_dispatched>>
    /\ UNCHANGED not_data_vars

\* A mutated update_pushers: of several updates queued for a stream the first
\* one stays in the table.
RECURSIVE update_pushers_first_wins(_, _)
update_pushers_first_wins(table, updates) ==
    IF updates = <<>> THEN table
    ELSE update_pushers_first_wins(
             Put(table, updates[Len(updates)][1], updates[Len(updates)][2]),
             SubSeq(updates, 1, Len(updates) - 1))

\* DataReceiver::update_pushers: every queued update is inserted in the table
\* in the order it was queued.
RECURSIVE update_pushers(_, _)
update_pushers(table, updates) ==
    IF updates = <<>> THEN table
    ELSE update_pushers(Put(table, Head(updates)[1], Head(updates)[2]), Tail(updates))

\* DataReceiver::run: a frame is read from the stream and the queued pusher
\* updates are applied.
DataReceiverRead ==
    /\ receiver_pc = "running"
    /\ tcp_stream # <<>>
    /\ recv_msg' = Head(tcp_stream)
    /\ tcp_stream' = Tail(tcp_stream)
    /\ stream_id_to_pusher' = update_pushers(stream_id_to_pusher, rx)
    /\ rx' = <<>>
    /\ receiver_pc' = "dispatch"
    /\ UNCHANGED <<data_message_rx, queue_open, tcp_state, sender_pc, n_updates,
                   h_enqueued, h_written, h_dispatched>>
    /\ UNCHANGED not_data_vars

\* A mutated lookup: a stream without a pusher gets a default pusher.
get_mut_or_default(table, stream_id) ==
    IF stream_id \in DOMAIN table THEN table[stream_id] ELSE 1

\* self.stream_id_to_pusher.get_mut(&metadata.stream_id); 0 stands for None.
get_mut(table, stream_id) ==
    IF stream_id \in DOMAIN table THEN table[stream_id] ELSE 0

\* A mutated None arm: the frame is dropped and the loop goes on.
missing_pusher_skips == "running"

\* The None arm of the lookup: panic!("Receiver does not have any pushers.").
missing_pusher_panics == "panicked"

\* A mutated Err arm: the frame is dropped and the loop goes on.
send_error_skips == "running"

\* if let Err(e) = pusher.send_from_bytes(bytes) { return Err(e); }
send_error_returns == "Err"

\* DataReceiver::run: the frame read is looked up and handed to its pusher.
DataReceiverDispatch ==
    /\ receiver_pc = "dispatch"
    /\ LET pusher == get_mut(stream_id_to_pusher, recv_msg.stream_id)
       IN  IF pusher = 0
           THEN \* panic!("Receiver does not have any pushers. ...")
                /\ receiver_pc' = missing_pusher_panics
                /\ UNCHANGED h_dispatched
           ELSE IF ~recv_msg.decodable
           THEN \* send_from_bytes returns Err(e): return Err(e)
                /\ receiver_pc' = send_error_returns
                /\ UNCHANGED h_dispatched
           ELSE /\ h_dispatched' =
                       Append(h_dispatched, [frame |-> recv_msg, pusher |-> pusher])
                /\ receiver_pc' = "running"
    /\ recv_msg' = NoFrame
    /\ UNCHANGED <<data_message_rx, queue_open, tcp_stream, tcp_state, sender_pc,
                   rx, stream_id_to_pusher, n_updates, h_enqueued, h_written>>
    /\ UNCHANGED not_data_vars

\* DataReceiver::run: the stream ends (None) or fails (Some(Err(e))).
DataReceiverStreamEnd ==
    /\ receiver_pc = "running"
    /\ \/ /\ tcp_state = "eof"
          /\ tcp_stream = <<>>
          /\ receiver_pc' = "Ok"
       \/ /\ tcp_state = "reset"
          /\ receiver_pc' = "Err"
    /\ UNCHANGED <<data_message_rx, queue_open, tcp_stream, tcp_state, sender_pc,
                   rx, stream_id_to_pusher, recv_msg, n_updates, h_enqueued,
                   h_written, h_dispatched>>
    /\ UNCHANGED not_data_vars

DataNext ==
    \/ \E s \in StreamIds, d \in BOOLEAN : EnqueueFrame(s, d)
    \/ DropQueueSenders
    \/ \E how \in {"eof", "reset"} : ConnectionLost(how)
    \/ \E ok \in BOOLEAN : SenderInitialized(ok)
    \/ DataSenderRun
    \/ \E s \in StreamIds : InstallPusher(s)
    \/ \E ok \in BOOLEAN : ReceiverInitialized(ok)
    \/ DataReceiverRead
    \/ DataReceiverDispatch
    \/ DataReceiverStreamEnd

----------------------------------------------------------------------------
\* The StreamManager of one Worker, the channels it makes, and the pushers
\* it shares with the DataReceivers.

\* The record of one mpsc::unbounded_channel() made for a stream: the key its
\* ends are stored under, the Job it was made for, where its receiving end
\* is, and the frames sent on it.
Channel(kind, stream_id, key, consumer, after) ==
    [kind |-> kind, stream_id |-> stream_id, key |-> key, consumer |-> consumer,
     after |-> after, rx |-> "stored", delivered |-> <<>>]

\* StreamEndpoints::new
NewStreamEndpoints == [recv_endpoints |-> EmptyMap, send_endpoints |-> EmptyMap]

\* Pusher::new
NewPusher == EmptyMap

\* The stream the operations of the StreamManager are called for.
ManagedStreams == {"s1"}

\* The Jobs that can consume a stream: every Job but its source.
Consumers(stream_id) == Jobs \ {get_source(stream_id)}

StreamManagerInit ==
    /\ stream_entries = EmptyMap
    /\ stream_pushers = EmptyMap
    /\ installed_pushers = {}
    /\ pusher_updates = <<>>
    /\ channels = <<>>
    /\ sm_pc = "running"
    /\ n_dispatched = [s \in StreamIds |-> 0]
    /\ h_taken = <<>>
    /\ h_pusher_calls = [s \in StreamIds |-> [created |-> 0, installed |-> 0]]
    /\ h_handed = {}
    /\ h_rehanded = FALSE

\* StreamEndpoints::add_send_endpoint
add_send_endpoint(entry, job, endpoint) ==
    [entry EXCEPT !.send_endpoints = Put(@, job, endpoint)]

\* StreamEndpoints::add_recv_endpoint
add_recv_endpoint(entry, job, endpoint) ==
    [entry EXCEPT !.recv_endpoints = Put(@, job, endpoint)]

\* The handed-out marks after send_endpoints.insert(job, endpoint): a new
\* SendEndpoint under the key was not handed out yet.
Unhand(handed, stream_id, entry, job, endpoint) ==
    IF job \in DOMAIN entry.send_endpoints /\ entry.send_endpoints[job] = endpoint
    THEN handed
    ELSE handed \ {<<stream_id, job>>}

\* The channels after recv_endpoints.insert(job, _): the RecvEndpoint the
\* insert replaces is dropped.
DropReplaced(chs, entry, job) ==
    IF job \in DOMAIN entry.recv_endpoints
    THEN [chs EXCEPT ![entry.recv_endpoints[job]].rx = "dropped"]
    ELSE chs

\* StreamEndpoints::add_inter_thread_channel, c being the new channel.
add_inter_thread_channel(entry, job, c) ==
    add_recv_endpoint(add_send_endpoint(entry, job, <<"InterThread", c>>), job, c)

\* Pusher::add_endpoint: the table Job -> SendEndpoint holds the endpoint
\* under the Job, one entry for a Job however often it is added.
add_endpoint(pusher, job, c) == Put(pusher, job, c)

\* An in-process channel between two operators of this Worker is registered
\* for stream_id and the consuming job.
AddInterThreadChannel(stream_id, job) ==
    /\ sm_pc = "running"
    /\ Len(channels) < MaxChannels
    /\ LET entry == IF stream_id \in DOMAIN stream_entries
                    THEN stream_entries[stream_id]
                    ELSE NewStreamEndpoints
           c == Len(channels) + 1
       IN  /\ stream_entries' =
                  Put(stream_entries, stream_id, add_inter_thread_channel(entry, job, c))
           /\ channels' =
                  Append(DropReplaced(channels, entry, job),
                         Channel("InterThread", stream_id, job, job, n_dispatched[stream_id]))
           /\ h_handed' = Unhand(h_handed, stream_id, entry, job, <<"InterThread", c>>)
    /\ UNCHANGED <<stream_pushers, installed_pushers, pusher_updates, sm_pc,
                   n_dispatched, h_taken, h_pusher_calls, h_rehanded>>
    /\ UNCHANGED not_sm_vars

\* StreamManager::add_inter_worker_send_endpoint
AddInterWorkerSendEndpoint(stream_id, destination_job) ==
    /\ sm_pc = "running"
    /\ LET entry == IF stream_id \in DOMAIN stream_entries
                    THEN stream_entries[stream_id]
                    ELSE NewStreamEndpoints
           endpoint == <<"InterProcess", stream_id>>
       IN  /\ stream_entries' =
                  Put(stream_entries, stream_id,
                      add_send_endpoint(entry, destination_job, endpoint))
           /\ h_handed' = Unhand(h_handed, stream_id, entry, destination_job, endpoint)
    /\ UNCHANGED <<stream_pushers, installed_pushers, pusher_updates, channels,
                   sm_pc, n_dispatched, h_taken, h_pusher_calls, h_rehanded>>
    /\ UNCHANGED not_sm_vars

\* A mutated test: no stream is ever found in the map.
contains_key_never(entries, stream_id) == FALSE

\* self.stream_entries.contains_key(&stream.id())
contains_key(entries, stream_id) == stream_id \in DOMAIN entries

\* StreamManager::add_inter_worker_recv_endpoint; install_ok and notify_ok
\* are the outcomes of install_pusher and notify_pusher_update.
AddInterWorkerRecvEndpoint(stream_id, receiving_job, install_ok, notify_ok) ==
    /\ sm_pc = "running"
    /\ Len(channels) < MaxChannels
    /\ LET absent == ~contains_key(stream_entries, stream_id)
           entries1 == IF absent
                       THEN Put(stream_entries, stream_id, NewStreamEndpoints)
                       ELSE stream_entries
           pushers1 == IF absent
                       THEN Put(stream_pushers, stream_id, NewPusher)
                       ELSE stream_pushers
       IN  IF absent /\ ~install_ok
           THEN \* worker_connection.install_pusher(stream.id(), pusher)? returns
                /\ stream_entries' = entries1
                /\ stream_pushers' = pushers1
                /\ UNCHANGED <<installed_pushers, pusher_updates, channels, sm_pc>>
           ELSE IF stream_id \notin DOMAIN pushers1
           THEN \* self.stream_pushers.get(&stream.id()).unwrap() panics
                /\ sm_pc' = "panicked"
                /\ UNCHANGED <<stream_entries, stream_pushers, installed_pushers,
                               pusher_updates, channels>>
           ELSE LET source_job == get_source(stream_id)
                    entry == entries1[stream_id]
                    c == Len(channels) + 1
                IN  /\ stream_pushers' =
                           Put(pushers1, stream_id,
                               add_endpoint(pushers1[stream_id], source_job, c))
                    /\ stream_entries' =
                           Put(entries1, stream_id, add_recv_endpoint(entry, source_job, c))
                    /\ channels' =
                           Append(DropReplaced(channels, entry, source_job),
                                  Channel("InterWorker", stream_id, source_job,
                                          receiving_job, n_dispatched[stream_id]))
                    /\ installed_pushers' =
                           IF absent THEN installed_pushers \cup {stream_id}
                           ELSE installed_pushers
                    /\ pusher_updates' =
                           IF notify_ok
                           THEN Append(pusher_updates, <<source_job, stream_id, receiving_job>>)
                           ELSE pusher_updates
                    /\ UNCHANGED sm_pc
    /\ h_pusher_calls' =
           IF ~contains_key(stream_entries, stream_id)
           THEN [h_pusher_calls EXCEPT ![stream_id] =
                    [created |-> @.created + 1, installed |-> @.installed + 1]]
           ELSE h_pusher_calls
    /\ UNCHANGED <<n_dispatched, h_taken, h_handed, h_rehanded>>
    /\ UNCHANGED not_sm_vars

\* StreamManager::take_recv_endpoint, and take_read_stream which wraps it:
\* the endpoint of whichever key the map yields first is taken; without an
\* entry or an endpoint the call returns Err and changes nothing.
TakeRecvEndpoint(stream_id) ==
    /\ sm_pc = "running"
    /\ IF stream_id \in DOMAIN stream_entries
          /\ DOMAIN stream_entries[stream_id].recv_endpoints # {}
       THEN \E job \in DOMAIN stream_entries[stream_id].recv_endpoints :
               LET c == stream_entries[stream_id].recv_endpoints[job]
               IN  /\ stream_entries' =
                          [stream_entries EXCEPT ![stream_id].recv_endpoints = Remove(@, job)]
                   /\ channels' = [channels EXCEPT ![c].rx = "taken"]
                   /\ h_taken' = Append(h_taken, [stream_id |-> stream_id, endpoint |-> c])
       ELSE UNCHANGED <<stream_entries, channels, h_taken>>
    /\ UNCHANGED <<stream_pushers, installed_pushers, pusher_updates, sm_pc,
                   n_dispatched, h_pusher_calls, h_handed, h_rehanded>>
    /\ UNCHANGED not_sm_vars

\* StreamEndpoints::get_send_endpoints: a clone of the map.
get_send_endpoints(entry) == entry.send_endpoints

\* StreamManager::get_send_endpoints, and write_stream which wraps it: a
\* clone of the map is returned; without an entry the call returns Err.
GetSendEndpoints(stream_id) ==
    /\ sm_pc = "running"
    /\ IF stream_id \in DOMAIN stream_entries
       THEN LET endpoints == get_send_endpoints(stream_entries[stream_id])
                handed == {<<stream_id, job>> : job \in DOMAIN endpoints}
            IN  /\ h_handed' = h_handed \cup handed
                /\ h_rehanded' = (h_rehanded \/ handed \cap h_handed # {})
       ELSE UNCHANGED <<h_handed, h_rehanded>>
    /\ UNCHANGED <<stream_entries, stream_pushers, installed_pushers,
                   pusher_updates, channels, sm_pc, n_dispatched, h_taken,
                   h_pusher_calls>>
    /\ UNCHANGED not_sm_vars

RECURSIVE Sum(_, _)
Sum(f, keys) ==
    IF keys = {} THEN 0
    ELSE LET k == CHOOSE x \in keys : TRUE IN f[k] + Sum(f, keys \ {k})

\* A DataReceiver hands the next frame of stream_id to the installed pusher,
\* which forwards it to each of its endpoints whose receiving end is alive.
PusherDispatch(stream_id) ==
    /\ sm_pc = "running"
    /\ stream_id \in installed_pushers
    /\ Sum(n_dispatched, StreamIds) < MaxDispatch
    /\ n_dispatched' = [n_dispatched EXCEPT ![stream_id] = @ + 1]
    /\ channels' =
           [c \in DOMAIN channels |->
               IF c \in Range(stream_pushers[stream_id]) /\ channels[c].rx # "dropped"
               THEN [channels[c] EXCEPT !.delivered = Append(@, n_dispatched[stream_id] + 1)]
               ELSE channels[c]]
    /\ UNCHANGED <<stream_entries, stream_pushers, installed_pushers,
                   pusher_updates, sm_pc, h_taken, h_pusher_calls, h_handed,
                   h_rehanded>>
    /\ UNCHANGED not_sm_vars

StreamManagerNext ==
    \/ \E s \in ManagedStreams : \E j \in Consumers(s) : AddInterThreadChannel(s, j)
    \/ \E s \in ManagedStreams : \E j \in Consumers(s) : AddInterWorkerSendEndpoint(s, j)
    \/ \E s \in ManagedStreams : \E j \in Consumers(s) : \E i, n \in BOOLEAN :
          AddInterWorkerRecvEndpoint(s, j, i, n)
    \/ \E s \in ManagedStreams : TakeRecvEndpoint(s)
    \/ \E s \in ManagedStreams : GetSendEndpoints(s)
    \/ \E s \in ManagedStreams : PusherDispatch(s)

----------------------------------------------------------------------------
----------------------------------------------------------------------------
\* WorkerHandle (handles.rs): the handle the Driver holds, its channel to the
\* Worker, and the Driver arm of the run loop that receives from it.

MaxCalls == 2

\* No submit is between its two sends.
Idle == [graph |-> "none", sent |-> <<>>]

HandleInit ==
    /\ worker_handle = <<>>
    /\ handle_pc = Idle
    /\ h_driver_sent = <<>>
    /\ h_calls = <<>>

DriverNotification(type, g) == [type |-> type, graph |-> g]

\* The receiving half of the channel is a field of the WorkerNode, which is
\* dropped when the task that runs WorkerNode::run ends.
ReceiverDropped == worker_pc \in {"done", "Err", "panicked"}

\* The result of WorkerHandle::register: graph.compile() fails, or the
\* blocking_send fails, or the RegisterGraph is on the channel.
register(compiles, dropped) ==
    IF ~compiles THEN "GraphCompilationError"
    ELSE IF dropped THEN "CommunicationError"
    ELSE "Ok"

\* A mutated submit: the result of register is not looked at.
is_err_never(result) == FALSE

\* The ? after self.register(graph) in submit: an error is returned at once.
is_err(result) == result # "Ok"

Call(op, g, result, sent) ==
    [op |-> op, graph |-> g, result |-> result, sent |-> sent]

\* WorkerHandle::register, called by the Driver.
Register(g, compiles) ==
    /\ handle_pc = Idle
    /\ Len(h_calls) < MaxCalls
    /\ LET result == register(compiles, ReceiverDropped)
           message == DriverNotification("RegisterGraph", g)
       IN  IF result = "Ok"
           THEN /\ worker_handle' = Append(worker_handle, message)
                /\ h_driver_sent' = Append(h_driver_sent, message)
                /\ h_calls' = Append(h_calls, Call("register", g, result, <<message>>))
           ELSE /\ h_calls' = Append(h_calls, Call("register", g, result, <<>>))
                /\ UNCHANGED <<worker_handle, h_driver_sent>>
    /\ UNCHANGED <<handle_pc, not_handle_vars>>

\* WorkerHandle::submit up to and with self.register(graph)?.
SubmitRegister(g, compiles) ==
    /\ handle_pc = Idle
    /\ Len(h_calls) < MaxCalls
    /\ LET result == register(compiles, ReceiverDropped)
           message == DriverNotification("RegisterGraph", g)
       IN  /\ IF result = "Ok"
              THEN /\ worker_handle' = Append(worker_handle, message)
                   /\ h_driver_sent' = Append(h_driver_sent, message)
              ELSE UNCHANGED <<worker_handle, h_driver_sent>>
           /\ IF is_err(result)
              THEN /\ h_calls' = Append(h_calls, Call("submit", g, result, <<>>))
                   /\ UNCHANGED handle_pc
              ELSE /\ handle_pc' =
                          [graph |-> g,
                           sent |-> IF result = "Ok" THEN <<message>> ELSE <<>>]
                   /\ UNCHANGED h_calls
    /\ UNCHANGED not_handle_vars

\* WorkerHandle::submit, after the register: the blocking_send of SubmitGraph.
SubmitSend ==
    /\ handle_pc # Idle
    /\ LET g == handle_pc.graph
           message == DriverNotification("SubmitGraph", g)
       IN  IF ReceiverDropped
           THEN /\ h_calls' = Append(h_calls,
                        Call("submit", g, "CommunicationError", handle_pc.sent))
                /\ UNCHANGED <<worker_handle, h_driver_sent>>
           ELSE /\ worker_handle' = Append(worker_handle, message)
                /\ h_driver_sent' = Append(h_driver_sent, message)
                /\ h_calls' = Append(h_calls,
                        Call("submit", g, "Ok", Append(handle_pc.sent, message)))
    /\ handle_pc' = Idle
    /\ UNCHANGED not_handle_vars

\* WorkerNode::run, Driver arm: the oldest DriverNotification of the channel
\* is received and handled by handle_driver_messages.
DriverArm ==
    /\ worker_handle # <<>>
    /\ LET message == Head(worker_handle)
       IN  /\ worker_handle' = Tail(worker_handle)
           /\ IF message.type = "RegisterGraph"
              THEN RegisterGraphArm(message.graph)
              ELSE SubmitGraphArm(message.graph)
    /\ UNCHANGED <<handle_pc, h_driver_sent, h_calls, not_worker_handle_vars>>

HandleNext ==
    \/ \E g \in JobGraphIds, compiles \in BOOLEAN : Register(g, compiles)
    \/ \E g \in JobGraphIds, compiles \in BOOLEAN : SubmitRegister(g, compiles)
    \/ SubmitSend
    \/ DriverArm
    \/ LeaderShutdown

----------------------------------------------------------------------------
\* AbstractStream (dataflow/graph/mod.rs): the source and the destinations of
\* one stream, as the graph construction writes and reads them.

MaxDestinations == 3

\* AbstractStream::new
AbstractStreamInit ==
    abstract_stream = [source |-> "None", destinations |-> <<>>, pc |-> "ok",
                       h_read |-> <<>>]

\* self.source = Some(job)
RegisterSource(job) ==
    /\ abstract_stream.pc = "ok"
    /\ abstract_stream' = [abstract_stream EXCEPT !.source = job]
    /\ UNCHANGED not_abstract_stream_vars

\* self.destinations.push(job)
AddDestination(job) ==
    /\ abstract_stream.pc = "ok"
    /\ Len(abstract_stream.destinations) < MaxDestinations
    /\ abstract_stream' =
           [abstract_stream EXCEPT !.destinations = Append(@, job)]
    /\ UNCHANGED not_abstract_stream_vars

\* self.source.unwrap(): panics on None.
GetSource ==
    /\ abstract_stream.pc = "ok"
    /\ abstract_stream' =
           IF abstract_stream.source = "None"
           THEN [abstract_stream EXCEPT !.pc = "panicked"]
           ELSE [abstract_stream EXCEPT !.h_read = <<abstract_stream.source>>]
    /\ UNCHANGED not_abstract_stream_vars

\* self.destinations.clone()
GetDestinations ==
    /\ abstract_stream.pc = "ok"
    /\ abstract_stream' =
           [abstract_stream EXCEPT !.h_read = abstract_stream.destinations]
    /\ UNCHANGED not_abstract_stream_vars

AbstractStreamNext ==
    \/ \E job \in Jobs : RegisterSource(job)
    \/ \E job \in Jobs : AddDestination(job)
    \/ GetSource
    \/ GetDestinations

----------------------------------------------------------------------------
\* LeaderNode (node/leader_node.rs): the loop that accepts Worker connections.

MaxWorkers == 4    \* connections the listener accepts in all

PeerAddresses == {"a1", "a2", "a3"}

LeaderNodeInit ==
    leader_node = [node_id_to_connection |-> EmptyMap, rng |-> 0,
                   pc |-> "accepting", n_accepted |-> 0, h_ready |-> <<>>]

\* WorkerId::new_deterministic(): the next value of a generator that does not
\* repeat a value; the generator's state advances with every call.
new_deterministic(rng) == [id |-> rng + 1, rng |-> rng + 1]

\* WorkerConnection::new(stream)
NewWorkerConnection(stream) == [stream |-> stream]

\* ControlPlaneNotification::Ready(worker_id), with a mutation that sends the
\* same id to everyone.
ReadyFixed(worker_id) == [type |-> "Ready", worker_id |-> 0]

\* ControlPlaneNotification::Ready(worker_id)
Ready(worker_id) == [type |-> "Ready", worker_id |-> worker_id]

\* One iteration of the loop of await_worker_connection: accept (unwrap),
\* new id, insert, get_mut, send Ready (`?`).  The channel made at the end of
\* the iteration is sent one message while its receiver is alive and is
\* dropped with the iteration; it leaves no state behind.
AwaitWorkerConnection(accept_ok, address, send_ok) ==
    /\ leader_node.pc = "accepting"
    /\ leader_node.n_accepted < MaxWorkers
    /\ IF ~accept_ok
       THEN leader_node' = [leader_node EXCEPT !.pc = "panicked"]
       ELSE LET stream == [n |-> leader_node.n_accepted + 1,
                           address |-> address]
                generated == new_deterministic(leader_node.rng)
                worker_id == generated.id
                table == Put(leader_node.node_id_to_connection, worker_id,
                             NewWorkerConnection(stream))
            IN  leader_node' =
                    [leader_node EXCEPT
                        !.rng = generated.rng,
                        !.n_accepted = @ + 1,
                        !.node_id_to_connection = table,
                        !.h_ready = IF send_ok
                                    THEN Append(@, [connection |-> table[worker_id],
                                                    message |-> Ready(worker_id)])
                                    ELSE @,
                        !.pc = IF send_ok THEN @ ELSE "Err"]
    /\ UNCHANGED not_leader_vars

LeaderNodeNext ==
    \E accept_ok \in BOOLEAN, address \in PeerAddresses, send_ok \in BOOLEAN :
        AwaitWorkerConnection(accept_ok, address, send_ok)

----------------------------------------------------------------------------
\* IngestStream (dataflow/stream/ingest_stream.rs): the driver's handle on a
\* stream whose WriteStream the setup hook installs when the graph is set up.

MaxSends == 3    \* sends the driver issues in all

Messages == {"data", "watermark", "top"}

\* Option<T>: None, or Some(x)
None == <<>>

Some(x) == <<x>>

\* IngestStream::new: write_stream_option is None, the hook is registered.
IngestStreamInit ==
    ingest_stream = [write_stream_option |-> None, setup_hook_pc |-> "pending",
                     h_sends |-> <<>>]

\* WriteStream::new
NewWriteStream == [closed |-> FALSE, sent |-> <<>>]

\* WriteStream::is_closed
WriteStreamIsClosed(write_stream) == write_stream.closed

\* WriteStream::send: Closed once a top watermark was sent; a top watermark
\* closes the stream.
WriteStreamSend(write_stream, msg) ==
    IF write_stream.closed
    THEN [stream |-> write_stream, result |-> "Closed"]
    ELSE [stream |-> [closed |-> msg = "top",
                      sent |-> Append(write_stream.sent, msg)],
          result |-> "Ok"]

\* IngestStream::is_closed: option.as_ref().map(WriteStream::is_closed)
\* .unwrap_or(true)
is_closed(option) ==
    IF option = None THEN TRUE ELSE WriteStreamIsClosed(option[1])

\* What the stream is in when a send is issued.
StreamPhase ==
    IF ingest_stream.write_stream_option # None
    THEN IF ingest_stream.write_stream_option[1].closed
         THEN "top_sent" ELSE "set_up"
    ELSE IF ingest_stream.setup_hook_pc = "panicked"
         THEN "setup_failed" ELSE "before_setup"

\* The setup hook: get_send_endpoints Ok -> replace(write_stream); Err -> panic.
SetupHook(ok) ==
    /\ ingest_stream.setup_hook_pc = "pending"
    /\ ingest_stream' =
           IF ok
           THEN [ingest_stream EXCEPT
                    !.write_stream_option = Some(NewWriteStream),
                    !.setup_hook_pc = "done"]
           ELSE [ingest_stream EXCEPT !.setup_hook_pc = "panicked"]
    /\ UNCHANGED not_ingest_vars

\* IngestStream::send: Err(Closed) when is_closed(); otherwise the loop, whose
\* first iteration finds the WriteStream (is_closed was false, so the option
\* is Some, and it never goes back to None) and returns its send.
IngestSend(msg) ==
    /\ Len(ingest_stream.h_sends) < MaxSends
    /\ ingest_stream' =
           IF ~is_closed(ingest_stream.write_stream_option)
           THEN LET sent == WriteStreamSend(ingest_stream.write_stream_option[1],
                                            msg)
                IN  [ingest_stream EXCEPT
                        !.write_stream_option = Some(sent.stream),
                        !.h_sends = Append(@, [msg |-> msg, at |-> StreamPhase,
                                               result |-> sent.result])]
           ELSE [ingest_stream EXCEPT
                    !.h_sends = Append(@, [msg |-> msg, at |-> StreamPhase,
                                           result |-> "Closed"])]
    /\ UNCHANGED not_ingest_vars

IngestNext ==
    \/ \E ok \in BOOLEAN : SetupHook(ok)
    \/ \E msg \in Messages : IngestSend(msg)

----------------------------------------------------------------------------
\* The Leader arm of the supervisor loop when the read yields an error.

LeaderRxInit == h_leader_rx_error = FALSE

\* Some(Err(error)) = leader_rx.next(): the error is logged and the loop goes
\* on to its next iteration.
LeaderReadError ==
    /\ Selecting
    /\ h_leader_rx_error' = TRUE
    /\ UNCHANGED not_leader_rx_vars

\* A message read from the Leader connection is processed.
LeaderMessageProcessed ==
    \/ \E g \in JobGraphIds, j \in Jobs, a \in WorkerAddresses :
           ScheduleJob(g, j, a)
    \/ \E g \in JobGraphIds : ExecuteGraph(g)
    \/ LeaderShutdown

LeaderErrorNext ==
    \/ WorkerNext
    \/ LeaderReadError

----------------------------------------------------------------------------
Init ==
    /\ WorkerInit
    /\ DataInit
    /\ StreamManagerInit
    /\ HandleInit
    /\ AbstractStreamInit
    /\ LeaderNodeInit
    /\ IngestStreamInit
    /\ LeaderRxInit

Next == WorkerNext

Spec == Init /\ [][Next]_vars

\* The Worker under the scheduling of the tokio runtime, which polls every
\* task that can make progress: the run loop takes a StreamReady that waits
\* in its channel and leaves a join whose task has returned, and the data
\* plane serves a request that waits in its channel.  The messages of the
\* Leader and the Driver are inputs and arrive or not.  WorkerNode::run sends
\* the data plane no message on shutdown and keeps channel_to_data_plane_tx,
\* so no step of the Worker makes DataPlane::run return: its exit is possible
\* (a failed task) and never forced.
SpecFair ==
    /\ Init
    /\ [][Next]_vars
    /\ WF_vars(HandleStreamReady)
    /\ WF_vars(DataPlaneSetupStreams)
    /\ WF_vars(JoinDataPlane)

SpecHandle == Init /\ [][HandleNext]_vars

\* The Leader of the specification, facing this Worker: it keeps, for every
\* graph, the Jobs it assigned and the JobReady it received, and issues
\* ExecuteGraph(g) once, when every Job assigned for g has reported JobReady.
\* The message is handled by the Worker as it is issued.

\* The Leader has issued ExecuteGraph(g).
issued(g) == g \in h_execute

\* The Jobs the Leader assigned for graph g on this Worker.
assigned(g) == {p[2] : p \in {q \in h_scheduled : q[1] = g}}

\* The Leader received JobReady(g, job) on the connection of the Worker.
received_job_ready(g, job) ==
    \E i \in DOMAIN leader_tx : leader_tx[i] = JobReady(g, job)

LeaderExecuteGraph(g) ==
    /\ ~issued(g)
    /\ assigned(g) # {}
    /\ \A job \in assigned(g) : received_job_ready(g, job)
    /\ ExecuteGraph(g)

LeaderNext ==
    \/ \E g \in JobGraphIds, j \in Jobs, a \in WorkerAddresses : ScheduleJob(g, j, a)
    \/ \E g \in JobGraphIds : LeaderExecuteGraph(g)
    \/ LeaderShutdown
    \/ \E g \in JobGraphIds : RegisterGraph(g)
    \/ \E g \in JobGraphIds : SubmitGraph(g)
    \/ DriverShutdown
    \/ JoinDataPlane
    \/ HandleStreamReady
    \/ DataPlaneSetupStreams
    \/ DataPlaneExit

SpecLeader == Init /\ [][LeaderNext]_vars

\* The shutdown of a Worker that has a DataSender at work: the Shutdown arms
\* of the run loop and the data plane task, next to the DataSender, its queue
\* and its connection.
NodeNext ==
    \/ LeaderShutdown
    \/ DriverShutdown
    \/ JoinDataPlane
    \/ DataPlaneExit
    \/ \E s \in StreamIds, d \in BOOLEAN : EnqueueFrame(s, d)
    \/ DropQueueSenders
    \/ \E how \in {"eof", "reset"} : ConnectionLost(how)
    \/ \E ok \in BOOLEAN : SenderInitialized(ok)
    \/ DataSenderRun

SpecNode == Init /\ [][NodeNext]_vars

\* The Worker with a data plane that also passes on the PusherUpdated of its
\* DataReceivers.
PusherUpdated(stream_id) == [type |-> "PusherUpdated", stream_id |-> stream_id]

\* The data plane sends PusherUpdated(stream_id) to the supervisor.
DataPlanePusherUpdated(stream_id) ==
    /\ data_plane_pc = "running"
    /\ Len(channel_from_data_plane) < MaxNotifications
    /\ channel_from_data_plane' =
           Append(channel_from_data_plane, PusherUpdated(stream_id))
    /\ UNCHANGED <<job_graphs, pending_stream_setups, job_graph_to_job_state,
                   channel_to_data_plane, leader_tx, job_executors, worker_pc,
                   data_plane_pc, data_plane_address, h_scheduled, h_reported,
                   h_materialized, h_execute>>
    /\ UNCHANGED not_worker_vars

\* WorkerNode::handle_data_plane_messages, the arm _ => unreachable!(): the
\* notification received is not a StreamReady.
HandleOtherNotification ==
    /\ Selecting
    /\ channel_from_data_plane # <<>>
    /\ Head(channel_from_data_plane).type # "StreamReady"
    /\ channel_from_data_plane' = Tail(channel_from_data_plane)
    /\ worker_pc' = "panicked"
    /\ UNCHANGED <<job_graphs, pending_stream_setups, job_graph_to_job_state,
                   channel_to_data_plane, leader_tx, job_executors,
                   data_plane_pc, data_plane_address, h_scheduled, h_reported,
                   h_materialized, h_execute>>
    /\ UNCHANGED not_worker_vars

NotifyNext ==
    \/ WorkerNext
    \/ \E s \in StreamIds : DataPlanePusherUpdated(s)
    \/ HandleOtherNotification

SpecNotify == Init /\ [][NotifyNext]_vars

\* WorkerNode::run from its first line: the start-up and then the loop.
StartNext ==
    \/ \E ok \in BOOLEAN, bound \in BoundAddresses : StartDataPlane(ok, bound)
    \/ \E ok \in BOOLEAN : SendInitialized(ok)
    \/ WorkerNext

InitStart ==
    /\ WorkerStart
    /\ DataInit
    /\ StreamManagerInit
    /\ HandleInit
    /\ AbstractStreamInit
    /\ LeaderNodeInit
    /\ IngestStreamInit
    /\ LeaderRxInit

SpecStart == InitStart /\ [][StartNext]_vars

SpecData == Init /\ [][DataNext]_vars

SpecStream == Init /\ [][AbstractStreamNext]_vars

SpecLeaderNode == Init /\ [][LeaderNodeNext]_vars

SpecIngest == Init /\ [][IngestNext]_vars

SpecLeaderError == Init /\ [][LeaderErrorNext]_vars

SpecSM == Init /\ [][StreamManagerNext]_vars

----------------------------------------------------------------------------
\* Properties of the Worker supervisor (specification Spec).

Count(seq, x) == Cardinality({i \in DOMAIN seq : seq[i] = x})

\* The step writes JobReady(g, job) on the Leader connection.
SendsJobReady(g, job) ==
    /\ Len(leader_tx') = Len(leader_tx) + 1
    /\ leader_tx'[Len(leader_tx')] = JobReady(g, job)

PendingStreams(job) ==
    IF job \in DOMAIN pending_stream_setups
    THEN pending_stream_setups[job].streams
    ELSE {}

\* C1: JobReady(g, j) is written on the Leader connection at most once for
\* every pair (g, j), whatever the sequence of ScheduleJob, ExecuteGraph and
\* StreamReady the supervisor handles.
C1_JobReadyAtMostOnce ==
    \A g \in JobGraphIds, j \in Jobs : Count(leader_tx, JobReady(g, j)) <= 1

\* C2: every step that sends JobReady(g, j) comes after a ScheduleJob(g, j)
\* that seeded the pending set, and since that seeding every read and write
\* stream of j's operator was set up by the data plane and reported by a
\* StreamReady(j, s); after the step no stream of j is pending.
C2_JobReadyOnlyAfterAllStreams ==
    [][\A g \in JobGraphIds, j \in Jobs :
          SendsJobReady(g, j) =>
              /\ <<g, j>> \in h_scheduled
              /\ j \in DOMAIN JobGraphOperators[g]
              /\ \A s \in Range(StreamsOf(JobGraphOperators[g][j])) :
                    /\ <<j, s>> \in h_materialized
                    /\ s \in h_reported'[j]
              /\ PendingStreams(j)' = {}]_vars

\* C2 witness: JobReady was sent for j2, the operator with two streams.
C2_Witness ==
    /\ Count(leader_tx, JobReady("g1", "j2")) = 1
    /\ h_reported["j2"] = {"s1", "s2"}

\* C3: between handler invocations a scheduled Job is Ready exactly when its
\* pending-stream set is empty.
C3_ReadyIffNothingPending ==
    \A g \in DOMAIN job_graph_to_job_state :
        \A j \in DOMAIN job_graph_to_job_state[g] :
            (job_graph_to_job_state[g][j] = "Ready") <=> (PendingStreams(j) = {})

\* C4: no step moves the recorded JobState of a (graph, Job) to an earlier
\* state of Scheduled -> Ready -> Executing -> Shutdown.
C4_JobStateMonotonic ==
    [][\A g \in DOMAIN job_graph_to_job_state :
          \A j \in DOMAIN job_graph_to_job_state[g] :
              JobStateRank(job_graph_to_job_state'[g][j])
                  >= JobStateRank(job_graph_to_job_state[g][j])]_vars

\* C5: the executors of graph g are created only by a step that handles
\* ExecuteGraph(g), and no executor of g exists before an ExecuteGraph(g) was
\* received.
C5_ExecutorsOnlyOnExecuteGraph ==
    /\ [][\A g \in JobGraphIds :
             (\E j \in Jobs : job_executors'[<<g, j>>] # job_executors[<<g, j>>])
                 => ExecuteGraph(g)]_vars
    /\ [](\A g \in JobGraphIds, j \in Jobs :
             job_executors[<<g, j>>] > 0 => g \in h_execute)

\* C5 witness: ExecuteGraph(g1) was handled and spawned the executor of a
\* Job that StreamReady had made Ready before.
C5_Witness ==
    /\ "g1" \in h_execute
    /\ \E j \in Jobs :
          /\ job_executors[<<"g1", j>>] > 0
          /\ Count(leader_tx, JobReady("g1", j)) > 0
----------------------------------------------------------------------------
\* Properties of the DataSender / DataReceiver connection (specification
\* SpecData).

IsPrefix(s, t) == Len(s) <= Len(t) /\ \A i \in DOMAIN s : s[i] = t[i]

DispatchedFrames == [i \in DOMAIN h_dispatched |-> h_dispatched[i].frame]

\* The step dispatches a frame of stream s through a pusher.
Dispatches(s) ==
    /\ Len(h_dispatched') = Len(h_dispatched) + 1
    /\ h_dispatched'[Len(h_dispatched')].frame.stream_id = s

\* C6: a step that dispatches a frame of stream s starts in a state where the
\* DataReceiver's own table already holds a pusher for s, put there by an
\* earlier step of the receiver, and dispatches through that pusher.
C6_PusherAppliedBeforeDispatch ==
    [][\A s \in StreamIds :
          Dispatches(s) =>
              /\ s \in DOMAIN stream_id_to_pusher
              /\ h_dispatched'[Len(h_dispatched')].pusher = stream_id_to_pusher[s]]_vars

\* C6 witness: a frame of s1 was dispatched through the first pusher sent,
\* then a frame of s2 through the second.
C6_Witness ==
    /\ Len(h_dispatched) >= 2
    /\ h_dispatched[1].frame.stream_id = "s1"
    /\ h_dispatched[1].pusher = 1
    /\ h_dispatched[2].frame.stream_id = "s2"
    /\ h_dispatched[2].pusher = 2

\* C7: the frames written on the TCP stream are a prefix of the frames
\* enqueued at the DataSender, and the frames dispatched by the DataReceiver
\* are a prefix of the frames written: no reordering, duplication or gap.
C7_FifoPrefix ==
    /\ IsPrefix(h_written, h_enqueued)
    /\ IsPrefix(DispatchedFrames, h_written)

\* C7 witness: two frames were enqueued and both were dispatched, the last
\* frame enqueued being the last dispatched.
C7_Witness ==
    /\ Len(h_enqueued) = 2
    /\ Len(h_dispatched) = 2
    /\ h_dispatched[2].frame = h_enqueued[2]

----------------------------------------------------------------------------
\* Properties of the StreamManager (specification SpecSM).

\* The frames a channel must carry: every frame of its stream dispatched
\* since the channel was made, once each and in order.
Expected(c) ==
    [i \in 1..(n_dispatched[channels[c].stream_id] - channels[c].after) |->
        channels[c].after + i]

\* The channel is in place: its receiving end is stored or was taken, its
\* sending end is in the pusher of its stream, and it carries every frame.
InPlace(c) ==
    /\ channels[c].rx # "dropped"
    /\ channels[c].stream_id \in DOMAIN stream_pushers
    /\ c \in Range(stream_pushers[channels[c].stream_id])
    /\ channels[c].delivered = Expected(c)

\* C8: when add_inter_worker_recv_endpoint registered Job A and later a
\* different Job B for the same stream, the channels made for A and for B are
\* distinct and both in place: A still receives every frame once and in
\* order, and every frame dispatched after B's registration reaches B too.
C8_SecondReceiverKeepsFirst ==
    \A a, b \in DOMAIN channels :
        (/\ a < b
         /\ channels[a].kind = "InterWorker"
         /\ channels[b].kind = "InterWorker"
         /\ channels[a].stream_id = channels[b].stream_id
         /\ channels[a].consumer # channels[b].consumer)
        => InPlace(a) /\ InPlace(b)

\* C9: no two receive endpoints were ever created for the same stream id and
\* consumer Job, and no receive endpoint was replaced or dropped.
C9_OneRecvEndpointPerPair ==
    /\ \A a, b \in DOMAIN channels :
          (/\ channels[a].stream_id = channels[b].stream_id
           /\ channels[a].consumer = channels[b].consumer)
          => a = b
    /\ \A a \in DOMAIN channels : channels[a].rx # "dropped"

\* C10: at most one take of a receive endpoint succeeded for each stream id,
\* and no receive endpoint was handed out twice.
C10_TakeOncePerStream ==
    \A i, k \in DOMAIN h_taken :
        (h_taken[i].stream_id = h_taken[k].stream_id
         \/ h_taken[i].endpoint = h_taken[k].endpoint)
        => i = k

\* C11: the send endpoints of a stream are handed out once: no call of
\* get_send_endpoints / write_stream returns a SendEndpoint that an earlier
\* call for the same stream id returned.
C11_SendEndpointsHandedOnce == ~h_rehanded

\* The step sends a pusher-update notification.
NotifiesPusherUpdate == Len(pusher_updates') = Len(pusher_updates) + 1

----------------------------------------------------------------------------
\* Properties of the shutdown of the Worker (specifications Spec, SpecFair
\* and SpecNode).

\* The run loop has processed a Shutdown.
ShutdownProcessed == worker_pc \in {"joining", "done"}

C14_DriverShutdownTerminates == (worker_pc = "joining") ~> (worker_pc = "done")

\* C15: the step that handles the Shutdown of the Leader leaves the run loop
\* only with the data plane task joined and, the DataSender running on an
\* open connection, with every frame enqueued so far written.
C15_LeaderShutdownJoinsAndDrains ==
    [][(LeaderShutdown /\ sender_pc = "running" /\ tcp_state = "open") =>
          /\ data_plane_pc' = "exited"
          /\ h_written' = h_enqueued']_vars

----------------------------------------------------------------------------
\* Properties of the Worker under the Leader of the specification
\* (specification SpecLeader).

\* The step handles ExecuteGraph(g).
HandlesExecuteGraph(g) == g \notin h_execute /\ g \in h_execute'

----------------------------------------------------------------------------
\* Properties of the start-up of the Worker (specification SpecStart).

\* The handlers of the run loop have not acted.
NothingHandled ==
    /\ job_graphs = {}
    /\ pending_stream_setups = EmptyMap
    /\ job_graph_to_job_state = EmptyMap
    /\ channel_to_data_plane = <<>>
    /\ channel_from_data_plane = <<>>
    /\ job_executors = [p \in JobGraphIds \X Jobs |-> 0]
    /\ h_execute = {}

\* C17: the first message on the Leader connection is Initialized with the
\* id of the Worker, the address its DataPlane is bound to and its resources;
\* no later message is an Initialized; it is there once the loop runs, it is
\* sent with the data plane task spawned, and until it is sent no handler of
\* the loop has acted.
C17_InitializedFirstAndOnce ==
    /\ leader_tx # <<>> =>
           /\ leader_tx[1] =
                  Initialized(WorkerState(WorkerId, data_plane_address, Resources))
           /\ data_plane_address \in BoundAddresses
           /\ data_plane_pc # "new"
    /\ \A i \in DOMAIN leader_tx : i > 1 => leader_tx[i].type # "Initialized"
    /\ worker_pc \in {"running", "joining", "done", "panicked"} => leader_tx # <<>>
    /\ leader_tx = <<>> => NothingHandled /\ worker_pc \in {"init", "spawned", "Err"}

\* C17 witness: the loop runs, a handler has sent a second message to the
\* Leader, and the first one is the Initialized of the Worker.
C17_Witness ==
    /\ worker_pc = "running"
    /\ Len(leader_tx) >= 2
    /\ leader_tx[1].type = "Initialized"
    /\ job_graphs # {}

----------------------------------------------------------------------------
\* Properties of the WorkerHandle (specification SpecHandle).

\* C18: on the channel to the Worker every SubmitGraph(g) comes right after
\* the RegisterGraph(g) of the same submit; a submit that succeeds has sent
\* both, in this order, and a submit whose register failed has sent nothing;
\* and the Worker, when it handles SubmitGraph(g), has g stored and forwards
\* the graph to the Leader.
C18_SubmitRegistersFirst ==
    /\ [](\A i \in DOMAIN h_driver_sent :
            h_driver_sent[i].type = "SubmitGraph" =>
                /\ i > 1
                /\ h_driver_sent[i - 1] =
                       DriverNotification("RegisterGraph", h_driver_sent[i].graph))
    /\ [](\A i \in DOMAIN h_calls :
            h_calls[i].op = "submit" =>
                LET c == h_calls[i]
                IN  /\ c.result = "Ok" =>
                           c.sent = <<DriverNotification("RegisterGraph", c.graph),
                                      DriverNotification("SubmitGraph", c.graph)>>
                    /\ c.result = "GraphCompilationError" => c.sent = <<>>
                    /\ c.result = "CommunicationError" =>
                           \A k \in DOMAIN c.sent : c.sent[k].type # "SubmitGraph")
    /\ [][(/\ worker_handle # <<>>
           /\ worker_handle' = Tail(worker_handle)
           /\ Head(worker_handle).type = "SubmitGraph") =>
              /\ Head(worker_handle).graph \in job_graphs
              /\ leader_tx' =
                     Append(leader_tx, [type |-> "SubmitGraph",
                                        graph |-> Head(worker_handle).graph])]_vars

\* C18 witness: one submit failed at its register and sent nothing, another
\* succeeded, and the Worker has forwarded its graph to the Leader.
C18_Witness ==
    /\ \E i \in DOMAIN h_calls :
           /\ h_calls[i].op = "submit"
           /\ h_calls[i].result = "GraphCompilationError"
    /\ \E i \in DOMAIN h_calls :
           /\ h_calls[i].op = "submit"
           /\ h_calls[i].result = "Ok"
           /\ Count(leader_tx, [type |-> "SubmitGraph", graph |-> h_calls[i].graph]) = 1
    /\ worker_handle = <<>>

----------------------------------------------------------------------------
\* Properties of the DataSender and the DataReceiver on errors
\* (specification SpecData).

\* The step is a turn of the DataSender loop whose write fails.
FailedWrite ==
    /\ sender_pc = "running"
    /\ data_message_rx # <<>>
    /\ data_message_rx' = Tail(data_message_rx)
    /\ tcp_state # "open"

\* The DataSender task has returned.
SenderTerminated == sender_pc \in {"Err", "Disconnected"}

\* C19 as stated: a failed write on the TCP stream of the peer terminates
\* the DataSender with the Disconnected error.
C19_FailedWriteDisconnected == [][FailedWrite => sender_pc' = "Disconnected"]_vars

\* C19 amended: a failed write terminates the DataSender with the error made
\* from the write error and writes nothing; the task ends with Disconnected
\* only when its queue is empty and closed; and a terminated DataSender stays
\* terminated and writes no further frame.
C19_FailedWriteTerminates ==
    /\ [][FailedWrite => sender_pc' = "Err" /\ h_written' = h_written]_vars
    /\ [][(sender_pc = "running" /\ sender_pc' = "Disconnected") =>
              data_message_rx = <<>> /\ ~queue_open]_vars
    /\ [][SenderTerminated =>
              /\ sender_pc' = sender_pc
              /\ h_written' = h_written
              /\ data_message_rx' = data_message_rx]_vars

\* C19 witness: the DataSender wrote a frame, lost the peer, failed to write
\* the next frame and returned, and a frame is still in its queue.
C19_Witness ==
    /\ sender_pc = "Err"
    /\ tcp_state # "open"
    /\ h_written # <<>>
    /\ Len(h_written) < Len(h_enqueued)

\* The DataReceiver holds a frame it read, its pusher updates applied, and
\* its table has no pusher for the stream of the frame.
FrameWithoutPusher ==
    /\ receiver_pc = "dispatch"
    /\ recv_msg.stream_id \notin DOMAIN stream_id_to_pusher

\* C20: the DataReceiver that holds a frame without a pusher panics in its
\* next step and does not dispatch the frame, and a DataReceiver that has
\* panicked stays so, reads no frame and dispatches none.
C20_MissingPusherPanics ==
    /\ [][(FrameWithoutPusher /\ recv_msg' # recv_msg) =>
              /\ receiver_pc' = "panicked"
              /\ h_dispatched' = h_dispatched]_vars
    /\ [][receiver_pc = "panicked" =>
              /\ receiver_pc' = "panicked"
              /\ h_dispatched' = h_dispatched
              /\ recv_msg' = recv_msg
              /\ Len(tcp_stream') >= Len(tcp_stream)]_vars

\* C20 witness: the DataReceiver, with a pusher for another stream in its
\* table, panicked on a frame, and the frame written after it waits on the
\* stream unread.
C20_Witness ==
    /\ receiver_pc = "panicked"
    /\ stream_id_to_pusher # EmptyMap
    /\ h_dispatched = <<>>
    /\ tcp_stream # <<>>

\* The DataReceiver holds a frame whose stream has a pusher and whose bytes
\* the pusher cannot decode.
UndecodableFrame ==
    /\ receiver_pc = "dispatch"
    /\ recv_msg.stream_id \in DOMAIN stream_id_to_pusher
    /\ ~recv_msg.decodable

\* C21 as stated: after a frame that its pusher cannot decode the
\* DataReceiver keeps running.
C21_UndecodableFrameDropped ==
    [][(UndecodableFrame /\ recv_msg' # recv_msg) => receiver_pc' = "running"]_vars

\* C21 amended: a frame that its pusher cannot decode is not dispatched and
\* ends the DataReceiver with the error, the table of pushers left as it is;
\* the DataReceiver that returned the error reads and dispatches no later
\* frame.
C21_UndecodableFrameTerminates ==
    /\ [][(UndecodableFrame /\ recv_msg' # recv_msg) =>
              /\ receiver_pc' = "Err"
              /\ h_dispatched' = h_dispatched
              /\ stream_id_to_pusher' = stream_id_to_pusher]_vars
    /\ [][receiver_pc = "Err" =>
              /\ receiver_pc' = "Err"
              /\ h_dispatched' = h_dispatched
              /\ recv_msg' = recv_msg
              /\ Len(tcp_stream') >= Len(tcp_stream)]_vars

\* C21 witness: on an open connection the DataReceiver returned the error of
\* the first frame, which its pusher could not decode, and the second frame
\* waits on the stream unread.
C21_Witness ==
    /\ receiver_pc = "Err"
    /\ tcp_state = "open"
    /\ Len(h_written) = 2
    /\ Len(tcp_stream) = 1
    /\ ~h_written[1].decodable
    /\ h_written[1].stream_id \in DOMAIN stream_id_to_pusher

\* C22: once the peer is gone, its stream ended or failed, the DataReceiver
\* does not terminate with a success result.
C22_PeerLossIsTransportError ==
    tcp_state \in {"eof", "reset"} => receiver_pc # "Ok"

----------------------------------------------------------------------------
\* Properties of the supervisor on the notifications of the data plane
\* (specification SpecNotify).

\* The step receives a PusherUpdated in the data plane arm of the run loop.
HandlesPusherUpdated ==
    /\ Selecting
    /\ channel_from_data_plane # <<>>
    /\ Head(channel_from_data_plane).type = "PusherUpdated"
    /\ channel_from_data_plane' = Tail(channel_from_data_plane)

\* C23: the step that handles PusherUpdated(s) takes s out of the pending
\* set of every Job that waits for it and leaves the supervisor running.
C23_PusherUpdatedCounted ==
    [][HandlesPusherUpdated =>
          /\ worker_pc' = "running"
          /\ \A j \in DOMAIN pending_stream_setups :
                 j \in DOMAIN pending_stream_setups' =>
                     Head(channel_from_data_plane).stream_id
                         \notin pending_stream_setups'[j].streams]_vars

----------------------------------------------------------------------------
\* Properties of the AbstractStream (specification SpecStream).

\* C24: whatever calls were made on the stream, no get_source has panicked
\* for lack of a source and the destinations are pairwise distinct.
C24_OneSourceDistinctDestinations ==
    /\ abstract_stream.pc # "panicked"
    /\ \A i, k \in DOMAIN abstract_stream.destinations :
           i # k => abstract_stream.destinations[i]
                        # abstract_stream.destinations[k]

C26_SendBeforeSetupNotClosed ==
    \A i \in DOMAIN ingest_stream.h_sends :
        ingest_stream.h_sends[i].result = "Closed"
            => ingest_stream.h_sends[i].at \in {"top_sent", "setup_failed"}

\* C28: once a read from the Leader connection has yielded an error, the
\* Worker processes no further message of that connection.
C28_NoLeaderMessageAfterReadError ==
    [][h_leader_rx_error => ~LeaderMessageProcessed]_vars

\* C29: ScheduleJob seeds the pending set of the Job and marks it Scheduled
\* before it sends SetupStreams, so that every StreamReady the data plane has
\* produced and the supervisor has yet to handle finds the pending set of its
\* Job present.
C29_StreamReadyFindsPendingSet ==
    \A i \in DOMAIN channel_from_data_plane :
        channel_from_data_plane[i].type = "StreamReady"
            => channel_from_data_plane[i].job \in DOMAIN pending_stream_setups

\* Job j is scheduled for graph g and a StreamReady(j, s) waits for the
\* supervisor for every stream s still in the pending set of j.
AllStreamsDelivered(g, job) ==
    /\ job \in DOMAIN pending_stream_setups
    /\ pending_stream_setups[job].graph = g
    /\ \A s \in pending_stream_setups[job].streams :
           StreamReady(job, s) \in Range(channel_from_data_plane)

\* JobReady(g, j) was written to the Leader and j is recorded Ready.
ReportedReady(g, job) ==
    /\ JobReady(g, job) \in Range(leader_tx)
    /\ g \in DOMAIN job_graph_to_job_state
    /\ job \in DOMAIN job_graph_to_job_state[g]
    /\ job_graph_to_job_state[g][job] = "Ready"

LastQueued(updates, s) ==
    LET at == {i \in DOMAIN updates : updates[i][1] = s}
    IN  IF at = {} THEN 0
        ELSE updates[CHOOSE i \in at : \A k \in at : k <= i][2]

\* C31: the step that reads a frame empties the update channel, leaves in the
\* table, for every stream with a queued update, the pusher queued last for
\* it and leaves the other entries alone; the step that dispatches the frame
\* uses the pusher of the table, and every update for the stream that is
\* still in the channel was queued after that drain (it is newer than the
\* pusher used).
C31_DrainThenDispatchThroughLast ==
    [][/\ DataReceiverRead =>
              /\ rx' = <<>>
              /\ \A s \in StreamIds :
                     IF LastQueued(rx, s) # 0
                     THEN /\ s \in DOMAIN stream_id_to_pusher'
                          /\ stream_id_to_pusher'[s] = LastQueued(rx, s)
                     ELSE get_mut(stream_id_to_pusher', s)
                              = get_mut(stream_id_to_pusher, s)
       /\ \A s \in StreamIds :
              Dispatches(s) =>
                  /\ h_dispatched'[Len(h_dispatched')].pusher
                         = get_mut(stream_id_to_pusher, s)
                  /\ \A i \in DOMAIN rx :
                         rx[i][1] = s =>
                             rx[i][2] > h_dispatched'[Len(h_dispatched')].pusher]_vars

\* C31 witness: two updates for s1 were queued before the first frame was
\* read, and the frame was dispatched through the second.
C31_Witness ==
    /\ Len(h_dispatched) >= 1
    /\ h_dispatched[1].frame.stream_id = "s1"
    /\ h_dispatched[1].pusher = 2
    /\ DOMAIN stream_id_to_pusher = {"s1"}
    /\ n_updates = 2
    /\ rx = <<>>

C33_OneExecutorPerScheduledJob ==
    [][\A g \in JobGraphIds :
          (ExecuteGraph(g) /\ worker_pc' = worker_pc) =>
              \A p \in DOMAIN job_executors :
                  job_executors'[p] =
                      job_executors[p]
                          + (IF p[1] = g /\ <<g, p[2]>> \in h_scheduled
                             THEN 1 ELSE 0)]_vars

\* C33 witness: both Jobs of g1 were scheduled and ExecuteGraph(g1) gave each
\* its executor, while g2 is registered and got none.
C33_Witness ==
    /\ job_executors[<<"g1", "j1">>] = 1
    /\ job_executors[<<"g1", "j2">>] = 1
    /\ "g2" \in job_graphs
    /\ worker_pc = "running"

\* C34: a step that handles SubmitGraph(g) of the Driver writes exactly one
\* SubmitGraph(g) to the Leader when g is registered and nothing otherwise,
\* and leaves the registered graphs, the pending sets, the job states, the
\* channel to the data plane and the executors as they were.
C34_SubmitGraphForwardsRegistered ==
    [][\A g \in JobGraphIds :
          SubmitGraph(g) =>
              /\ leader_tx' =
                     IF g \in job_graphs
                     THEN Append(leader_tx, [type |-> "SubmitGraph", graph |-> g])
                     ELSE leader_tx
              /\ UNCHANGED <<job_graphs, pending_stream_setups,
                             job_graph_to_job_state, channel_to_data_plane,
                             job_executors, worker_pc>>]_vars

\* C34 witness: with g1 registered, g2 not, and a Job of g1 waiting for its
\* streams, one SubmitGraph(g1) was written to the Leader.
C34_Witness ==
    /\ job_graphs = {"g1"}
    /\ pending_stream_setups # EmptyMap
    /\ Count(leader_tx, [type |-> "SubmitGraph", graph |-> "g1"]) = 1
    /\ worker_pc = "running"

\* C35: a step that handles ExecuteGraph(g) leaves the supervisor running,
\* whatever the state of the Worker and whatever g.
C35_ExecuteGraphNeverAborts ==
    [][\A g \in JobGraphIds : ExecuteGraph(g) => worker_pc' = "running"]_vars

\* The graph is registered on the Worker and the Job is one of its Jobs.
JobFound(g, job) == g \in job_graphs /\ job \in DOMAIN JobGraphOperators[g]

\* C36 (specification SpecLeader): a step that handles ScheduleJob(g, j,
\* addrs) for a graph that is not
\* registered or a Job that is not in it leaves the pending sets, the job
\* states, the channel to the data plane, the messages written to the Leader
\* and the run loop as they were.
C36_ScheduleJobNotFoundChangesNothing ==
    [][(\E g \in JobGraphIds, job \in Jobs, a \in WorkerAddresses :
            ~JobFound(g, job) /\ ScheduleJob(g, job, a)) =>
          UNCHANGED <<pending_stream_setups, job_graph_to_job_state,
                      channel_to_data_plane, leader_tx, worker_pc,
                      job_graphs, job_executors>>]_vars

\* C36 witness: the run loop is in a state with g1 registered, g2 not, and
\* Jobs of g1 scheduled and waiting, in which a ScheduleJob for g2 or for a
\* Job that g1 does not have is handled.
C36_Witness ==
    /\ worker_pc = "running"
    /\ job_graphs = {"g1"}
    /\ DOMAIN pending_stream_setups = {"j1", "j2"}
    /\ \E a \in WorkerAddresses : ENABLED ScheduleJob("g2", "j3", a)

\* The StreamReady at the head of the channel from the data plane names a Job
\* without a pending set or a stream that is not in the pending set of its Job.
HeadNotPending ==
    /\ channel_from_data_plane # <<>>
    /\ LET n == Head(channel_from_data_plane)
       IN  /\ n.type = "StreamReady"
           /\ ~(/\ n.job \in DOMAIN pending_stream_setups
                /\ n.stream_id \in pending_stream_setups[n.job].streams)

\* C37: a step that handles such a StreamReady takes it off the channel and
\* leaves every pending set, every job state and the messages written to the
\* Leader as they were.
C37_StreamReadyNotPendingChangesNothing ==
    [][(HandleStreamReady /\ HeadNotPending) =>
          /\ channel_from_data_plane' = Tail(channel_from_data_plane)
          /\ UNCHANGED <<pending_stream_setups, job_graph_to_job_state,
                         leader_tx, worker_pc, job_executors>>]_vars

\* C37 witness: j1 was reported Ready once and has no pending set any more,
\* and the supervisor is about to handle another StreamReady(j1, s1).
C37_Witness ==
    /\ worker_pc = "running"
    /\ HeadNotPending
    /\ Head(channel_from_data_plane) = StreamReady("j1", "s1")
    /\ Count(leader_tx, JobReady("g1", "j1")) = 1
    /\ "j1" \notin DOMAIN pending_stream_setups


\* C38: in every reachable state of the stream manager each pusher recorded
\* in stream_pushers has been installed on the DataReceiver of the peer: a
\* failed install_pusher leaves stream_entries and stream_pushers as they
\* were, so that a retry for the same stream installs the pusher.
C38_RecordedPusherIsInstalled ==
    DOMAIN stream_pushers \subseteq installed_pushers

\* C39: add_inter_worker_recv_endpoint always finds a pusher for its
\* stream: self.stream_pushers.get(&stream.id()).unwrap() never panics,
\* whatever operations came before the call.
C39_PusherLookupNeverFails ==
    sm_pc # "panicked"


\* The map of a ScheduleJob lacks the address of a Job the handler looks up.
LacksAddress(g, job, worker_addresses) ==
    \E needed \in AddressesNeeded(JobGraphOperators[g][job]) :
        needed \notin worker_addresses

\* C40 (specification SpecLeader): a step that handles ScheduleJob(g, j,
\* addrs) for a Job of a
\* registered graph, with a map that lacks the address of the source of one
\* of its read streams or of a destination of one of its write streams,
\* panics and leaves the pending sets, the job states and the channel to the
\* data plane as they were.
C40_MissingAddressAbortsBeforeRecording ==
    [][(\E g \in job_graphs, a \in WorkerAddresses :
            \E job \in DOMAIN JobGraphOperators[g] :
                LacksAddress(g, job, a) /\ ScheduleJob(g, job, a)) =>
          /\ worker_pc' = "panicked"
          /\ UNCHANGED <<pending_stream_setups, job_graph_to_job_state,
                         channel_to_data_plane, leader_tx>>]_vars

\* The Worker has panicked in a ScheduleJob of the registered graph g1 (no
\* ExecuteGraph was handled, the other step that can panic) and holds no
\* pending set, no job state and no request to the data plane.
C40_Witness ==
    /\ worker_pc = "panicked"
    /\ h_execute = {}
    /\ "g1" \in job_graphs
    /\ pending_stream_setups = EmptyMap
    /\ job_graph_to_job_state = EmptyMap
    /\ channel_to_data_plane = <<>>

====
